---- MODULE Spec2Model ----
(***************************************************************************)
(* Lattice option-pricing engine of PythonFinanceModels: the classes       *)
(* Binomialmodell (src/binomialmodell.py) and Trinomialmodell              *)
(* (src/trinomialmodell.py).                                               *)
(*                                                                         *)
(* Numbers.  A Python/numpy float is modelled by an exact rational         *)
(* <<n, d>> with d > 0 in lowest terms; the IEEE specials numpy produces   *)
(* on a division by zero are <<0,0>> (nan), <<1,0>> (inf), <<-1,0>> (-inf).*)
(* Python's None is the value None below.  Rounding is not modelled: the   *)
(* arithmetic is that of the reals.                                        *)
(*                                                                         *)
(* Transcendental calls.  math.exp and math.sqrt are irrational on almost  *)
(* every input, so the constructor inputs of the model carry, instead of   *)
(* r, div and sigma, the values the calls math.exp(r*dt), math.exp(div*dt) *)
(* and math.exp(sigma*sqrt(dt)) return (drawn from small sets of           *)
(* rationals); every other quantity is computed from them as the code      *)
(* computes it (exp(a-b) = exp(a)/exp(b), exp(-a) = 1/exp(a),              *)
(* exp(2a) = exp(a)^2).                                                    *)
(***************************************************************************)
EXTENDS Integers, Sequences, FiniteSets, TLC

VARIABLES
    model,                   \* the instance (self): its fields after __init__, or NoModel
    stock_price_tree,        \* self.stock_price_tree, Unset while the attribute does not exist
    option_price_tree,       \* self.option_price_tree
    delta_tree,              \* self.delta_tree
    end_state_probabilities, \* self.end_state_probabilities
    ret,                     \* outcome of the last call: returned value or raised exception
    superseded,              \* history: the last pricing call directly followed a pricing call
                             \* that returned a price for another option type
    threads                  \* the pricing calls of concurrent callers: position, option type
                             \* and outcome of each

vars == <<model, stock_price_tree, option_price_tree, delta_tree, end_state_probabilities, ret,
          superseded, threads>>

----------------------------------------------------------------------------
(* Bounds of the model *)

\* largest step count N the binomial constructor is called with
MaxN == 3

\* largest step count N the trinomial constructor is called with
Tri_MaxN == 2

----------------------------------------------------------------------------
(* Floats as exact rationals *)

None == <<0, -1>>
NaN == <<0, 0>>
Inf == <<1, 0>>
NegInf == <<-1, 0>>

IsNone(x) == x[2] < 0
IsFinite(x) == x[2] > 0

Abs(n) == IF n < 0 THEN -n ELSE n

RECURSIVE GCD(_, _)
GCD(a, b) == IF b = 0 THEN a ELSE GCD(b, a % b)

\* the rational n/d (d # 0) in lowest terms with a positive denominator
Rat(n, d) ==
    LET g == GCD(Abs(n), Abs(d))
        s == IF d < 0 THEN -1 ELSE 1
    IN <<s * (n \div g), s * (d \div g)>>

RInt(n) == <<n, 1>>
Zero == <<0, 1>>
One == <<1, 1>>

\* sums and comparisons go through the least common denominator, which keeps the
\* intermediate integers small
RAdd(x, y) ==
    LET g == GCD(x[2], y[2])
    IN Rat(x[1] * (y[2] \div g) + y[1] * (x[2] \div g), (x[2] \div g) * y[2])
RNeg(x) == <<-x[1], x[2]>>
RSub(x, y) == RAdd(x, RNeg(y))
RMul(x, y) == Rat(x[1] * y[1], x[2] * y[2])
RLt(x, y) ==
    LET g == GCD(x[2], y[2])
    IN x[1] * (y[2] \div g) < y[1] * (x[2] \div g)
RLe(x, y) == ~RLt(y, x)
RMax(x, y) == IF RLt(x, y) THEN y ELSE x
IsZero(x) == x[1] = 0 /\ x[2] > 0

\* Python float division x / y for y # 0 (y = 0 raises ZeroDivisionError at the call site)
PyDiv(x, y) == RMul(x, Rat(y[2], y[1]))

\* numpy float64 division: x / 0 is nan for x = 0, inf or -inf otherwise; no exception
NpDiv(x, y) ==
    IF ~IsZero(y) THEN PyDiv(x, y)
    ELSE IF IsZero(x) THEN NaN
    ELSE IF x[1] > 0 THEN Inf ELSE NegInf

\* x ** k for an integer k >= 0 (0 ** 0 = 1, as in Python)
RECURSIVE RPow(_, _)
RPow(x, k) == IF k = 0 THEN One ELSE RMul(x, RPow(x, k - 1))

\* the function f with every value computed, so that later reads do not recompute them
Force(f) == IF f = f THEN f ELSE f

\* e, computed after x has been computed (keeps the evaluation of a recursion shallow)
After(x, e) == IF x = x THEN e ELSE e

RECURSIVE factorial(_)
factorial(n) == IF n <= 0 THEN 1 ELSE n * factorial(n - 1)

----------------------------------------------------------------------------
(* Outcomes of a call *)

NoModel == [kind |-> "none"]
Unset == <<>>

Returned(op, arg, v) == [op |-> op, arg |-> arg, status |-> "ok", exc |-> "", value |-> v]
Raised(op, arg, e) == [op |-> op, arg |-> arg, status |-> "raise", exc |-> e, value |-> None]

\* calculate_payoffs with a final branch that takes every other tag, instead of raising
Families_with_catch_all == {"european", "american", "digital", "power", "strangle", "asian"}

\* the option families of the pricing operation, and one tag outside them
Families == {"european", "american", "digital", "power", "strangle"}
OptionTypes == Families \cup {"asian"}

----------------------------------------------------------------------------
(* Binomialmodell: construction *)

\* setup_parameters_with_sigma: CRR calibration.  self.exp_sigma is the value of
\* math.exp(sigma * sqrt(dt)), self.exp_r / self.exp_div that of math.exp((r - div) * dt).
Bin_setup_parameters_with_sigma(self) ==
    LET growth == PyDiv(self.exp_r, self.exp_div)
        df == PyDiv(One, growth)
        u == self.exp_sigma
        d == PyDiv(One, u)
    IN  IF IsZero(RSub(u, d)) THEN [exc |-> "ZeroDivisionError"]
        ELSE LET qu == PyDiv(RSub(growth, d), RSub(u, d))
             IN [exc |-> "", dt |-> PyDiv(self.T, RInt(self.N)), df |-> df,
                 u |-> u, d |-> d, qu |-> qu, qd |-> RSub(One, qu)]

\* setup_parameters_without_sigma: u = 1 + pu, d = 1 - pd, then the same risk-neutral formula.
\* 1 + None and 1 - None raise TypeError.
Bin_setup_parameters_without_sigma(self) ==
    LET growth == PyDiv(self.exp_r, self.exp_div)
        df == PyDiv(One, growth)
    IN  IF IsNone(self.pu) \/ IsNone(self.pd) THEN [exc |-> "TypeError"]
        ELSE LET u == RAdd(One, self.pu)
                 d == RSub(One, self.pd)
             IN IF IsZero(RSub(u, d)) THEN [exc |-> "ZeroDivisionError"]
                ELSE LET qu == PyDiv(RSub(growth, d), RSub(u, d))
                     IN [exc |-> "", dt |-> PyDiv(self.T, RInt(self.N)), df |-> df,
                         u |-> u, d |-> d, qu |-> qu, qd |-> RSub(One, qu)]

\* the floor taken at 0: self.N = max(0, N)
Bin_N_floor_zero(N) == IF N < 0 THEN 0 ELSE N

\* the step count __init__ stores: self.N = max(1, N)
Bin_N(N) == IF N < 1 THEN 1 ELSE N

\* __init__ up to the choice of the calibration: the fields set from the arguments
Bin_fields(a) ==
    [kind |-> "binomial", S0 |-> a.S0, K |-> a.K,
     K2 |-> IF IsNone(a.K2) THEN a.K ELSE a.K2,
     T |-> a.T, N |-> Bin_N(a.N), is_put |-> a.is_put, is_call |-> ~a.is_put,
     exponent |-> a.exponent, is_am |-> a.is_am, payoff |-> a.payoff,
     exp_sigma |-> a.exp_sigma, exp_r |-> a.exp_r, exp_div |-> a.exp_div,
     pu |-> a.pu, pd |-> a.pd]

\* the calibration __init__ selects: with sigma when sigma is not None
Bin_calibration(a) ==
    IF ~IsNone(a.exp_sigma) THEN Bin_setup_parameters_with_sigma(Bin_fields(a))
    ELSE Bin_setup_parameters_without_sigma(Bin_fields(a))

\* the instance Binomialmodell(...) returns when the calibration raises nothing
Binomialmodell(a) ==
    LET f == Bin_fields(a)
        c == Bin_calibration(a)
    IN [kind |-> "binomial", S0 |-> f.S0, K |-> f.K, K2 |-> f.K2, T |-> f.T, N |-> f.N,
        is_put |-> f.is_put, is_call |-> f.is_call, exponent |-> f.exponent,
        is_am |-> f.is_am, payoff |-> f.payoff,
        dt |-> c.dt, df |-> c.df, u |-> c.u, d |-> c.d, qu |-> c.qu, qd |-> c.qd]

----------------------------------------------------------------------------
(* Binomialmodell: pricing *)

\* a stock price lattice whose column index counts the up-moves: S0 * u**j * d**(i-j)
Bin_stock_price_tree_by_up_moves(self) ==
    Force([i \in 0..self.N |-> [j \in 0..self.N |->
        IF j <= i THEN RMul(RMul(self.S0, RPow(self.u, j)), RPow(self.d, i - j)) ELSE Zero]])

\* the stock price lattice of init_full_tree: zeros((N+1, N+1)), S0 * u**(i-j) * d**j for j <= i
Bin_stock_price_tree(self) ==
    Force([i \in 0..self.N |-> [j \in 0..self.N |->
        IF j <= i THEN RMul(RMul(self.S0, RPow(self.u, i - j)), RPow(self.d, j)) ELSE Zero]])

\* calculate_payoffs whose strangle branch pays only the leg is_put selects
Bin_payoff_at_one_leg(self, option_type, s) ==
    IF option_type \in {"european", "american"} THEN
        IF self.is_call THEN RMax(Zero, RSub(s, self.K)) ELSE RMax(Zero, RSub(self.K, s))
    ELSE IF option_type = "digital" THEN
        IF self.is_put THEN (IF RLe(s, self.K) THEN self.payoff ELSE Zero)
        ELSE (IF RLt(self.K, s) THEN self.payoff ELSE Zero)
    ELSE IF option_type = "power" THEN
        IF self.is_put THEN (IF RLt(s, self.K) THEN RPow(RSub(self.K, s), self.exponent) ELSE Zero)
        ELSE (IF RLt(self.K, s) THEN RPow(RSub(s, self.K), self.exponent) ELSE Zero)
    ELSE \* "strangle"
        IF self.is_put THEN (IF RLt(s, self.K2) THEN RSub(self.K2, s) ELSE Zero)
        ELSE (IF RLt(self.K, s) THEN RSub(s, self.K) ELSE Zero)

\* calculate_payoffs at one terminal price s, for a recognized option type
Bin_payoff_at(self, option_type, s) ==
    IF option_type \in {"european", "american"} THEN
        IF self.is_call THEN RMax(Zero, RSub(s, self.K)) ELSE RMax(Zero, RSub(self.K, s))
    ELSE IF option_type = "digital" THEN
        IF self.is_put THEN (IF RLe(s, self.K) THEN self.payoff ELSE Zero)
        ELSE (IF RLt(self.K, s) THEN self.payoff ELSE Zero)
    ELSE IF option_type = "power" THEN
        IF self.is_put THEN (IF RLt(s, self.K) THEN RPow(RSub(self.K, s), self.exponent) ELSE Zero)
        ELSE (IF RLt(self.K, s) THEN RPow(RSub(s, self.K), self.exponent) ELSE Zero)
    ELSE \* "strangle"
        RAdd(IF RLt(self.K, s) THEN RSub(s, self.K) ELSE Zero,
             IF RLt(s, self.K2) THEN RSub(self.K2, s) ELSE Zero)

\* calculate_payoffs: the payoff vector over stock_price_tree[-1]
Bin_calculate_payoffs(self, S, option_type) ==
    Force([j \in 0..self.N |-> Bin_payoff_at(self, option_type, S[self.N][j])])

\* check_early_exercise(payoff, node, level)
check_early_exercise(self, S, payoff, node, level) ==
    IF self.is_call THEN RMax(payoff, RSub(S[level][node], self.K))
    ELSE RMax(payoff, RSub(self.K, S[level][node]))

\* the nodes (i, j) the backward iteration visits: range(N - 1, -1, -1) x range(i + 1)
Bin_backward_nodes(self) ==
    UNION { { <<i, j>> : j \in 0..i } : i \in 0..(self.N - 1) }

\* the lattice entries the backward iteration reads at node (i, j): the two children in
\* the option price lattice (value and delta) and in the price lattice (early exercise
\* and delta)
Bin_reads(i, j) ==
    { [tree |-> t, row |-> i + 1, col |-> c] :
        t \in {"option_price_tree", "stock_price_tree"}, c \in {j, j + 1} }

\* the discounted expectation with the two risk-neutral weights exchanged
Bin_continuation_swapped(self, next, j) ==
    RMul(RAdd(RMul(self.qd, next[j]), RMul(self.qu, next[j + 1])), self.df)

\* discounted expectation of the two children of node (i, j); next is row i+1
Bin_continuation(self, next, j) ==
    RMul(RAdd(RMul(self.qu, next[j]), RMul(self.qd, next[j + 1])), self.df)

\* the value the backward iteration stores at node (i, j); next is row i+1 of the option lattice
Bin_node_value(self, S, next, i, j) ==
    IF self.is_am THEN
        LET in_the_money_payoff ==
                IF self.is_call THEN check_early_exercise(self, S, next[j], j, i + 1)
                ELSE check_early_exercise(self, S, next[j + 1], j + 1, i + 1)
        IN RMax(Bin_continuation(self, next, j), in_the_money_payoff)
    ELSE Bin_continuation(self, next, j)

\* rows i..N of the option price lattice: zeros_like(stock_price_tree), last row the payoffs
RECURSIVE Bin_option_rows(_, _, _, _)
Bin_option_rows(self, S, payoffs, i) ==
    IF i = self.N THEN (i :> payoffs)
    ELSE LET rest == Bin_option_rows(self, S, payoffs, i + 1)
         IN After(rest, (i :> Force([j \in 0..self.N |->
                    IF j <= i THEN Bin_node_value(self, S, rest[i + 1], i, j) ELSE Zero])) @@ rest)

Bin_option_price_tree(self, S, option_type) ==
    Bin_option_rows(self, S, Bin_calculate_payoffs(self, S, option_type), 0)

\* delta_tree allocated as zeros_like(stock_price_tree)
Bin_delta_tree_zeros_like(self, S, V) ==
    [i \in 0..self.N |-> [j \in 0..self.N |->
        IF j <= i /\ i < self.N
        THEN NpDiv(RSub(V[i + 1][j], V[i + 1][j + 1]), RSub(S[i + 1][j], S[i + 1][j + 1]))
        ELSE Zero]]

\* delta_tree = zeros((N, N)); entry (i, j), j <= i < N, is a numpy division
Bin_delta_tree(self, S, V) ==
    [i \in 0..(self.N - 1) |-> [j \in 0..(self.N - 1) |->
        IF j <= i THEN NpDiv(RSub(V[i + 1][j], V[i + 1][j + 1]), RSub(S[i + 1][j], S[i + 1][j + 1]))
        ELSE Zero]]

\* combos without the division by i!
combos_ordered(n, i) == PyDiv(RInt(factorial(n)), RInt(factorial(n - i)))

\* combos(n, i) = n! / ((n-i)! * i!)
combos(n, i) == PyDiv(RInt(factorial(n)), RInt(factorial(n - i) * factorial(i)))

\* end_state_probabilities[k] = combos(N, k) * qu**k * qd**(N-k)
Bin_end_state_probabilities(self) ==
    [k \in 0..self.N |->
        RMul(RMul(combos(self.N, k), RPow(self.qu, k)), RPow(self.qd, self.N - k))]

----------------------------------------------------------------------------
(* Trinomialmodell: construction *)

\* setup_parameters.  a = self.exp_sigma is the value of math.exp(sigma * sqrt(dt / 2)), so
\* math.exp(sigma * sqrt(2 * dt)) = a**2 and math.exp(-sigma * sqrt(dt / 2)) = 1 / a;
\* h = self.exp_r / self.exp_div is the value of math.exp((r - div) * dt / 2).
\* math.sqrt of a negative dt raises ValueError (math domain error).
Tri_setup_parameters(self) ==
    LET a == self.exp_sigma
        h == PyDiv(self.exp_r, self.exp_div)
        inv == PyDiv(One, a)
        den == RSub(a, inv)
    IN  IF RLt(self.dt, Zero) THEN [exc |-> "ValueError"]
        ELSE IF IsZero(den) THEN [exc |-> "ZeroDivisionError"]
        ELSE LET u == RMul(a, a)
                 pu == RPow(PyDiv(RSub(h, inv), den), 2)
                 pd == RPow(PyDiv(RSub(a, h), den), 2)
             IN [exc |-> "", u |-> u, d |-> PyDiv(One, u), m |-> One,
                 pu |-> pu, pd |-> pd, pm |-> RSub(RSub(One, pu), pd)]

\* the calibration __init__ selects, after self.dt = T / N and self.df = exp(-r * dt)
Tri_calibration(a) ==
    IF a.N = 0 THEN [exc |-> "ZeroDivisionError"]
    ELSE IF ~IsNone(a.exp_sigma) THEN
        Tri_setup_parameters([dt |-> PyDiv(a.T, RInt(a.N)), exp_sigma |-> a.exp_sigma,
                              exp_r |-> a.exp_r, exp_div |-> a.exp_div])
    ELSE IF \A v \in {a.u, a.d, a.m, a.pu, a.pd, a.pm} : ~IsNone(v) THEN
        [exc |-> "", u |-> a.u, d |-> a.d, m |-> a.m, pu |-> a.pu, pd |-> a.pd, pm |-> a.pm]
    ELSE [exc |-> "ValueError"]

\* the instance Trinomialmodell(...) returns when __init__ raises nothing;
\* self.df = math.exp(-r * dt) = 1 / exp(r * dt / 2)**2, without the dividend
Trinomialmodell(a) ==
    LET c == Tri_calibration(a)
    IN [kind |-> "trinomial", S0 |-> a.S0, K |-> a.K,
        K2 |-> IF IsNone(a.K2) THEN a.K ELSE a.K2,
        T |-> a.T, N |-> a.N, is_put |-> a.is_put, is_call |-> ~a.is_put,
        exponent |-> a.exponent, is_am |-> a.is_am,
        dt |-> PyDiv(a.T, RInt(a.N)), df |-> PyDiv(One, RMul(a.exp_r, a.exp_r)),
        u |-> c.u, d |-> c.d, m |-> c.m, pu |-> c.pu, pd |-> c.pd, pm |-> c.pm]

----------------------------------------------------------------------------
(* Trinomialmodell: pricing *)

\* row i of the stock price lattice zeros((N+1, 2N+1)): row 0 holds S0 in column N; in row i
\* a column above the centre takes the left neighbour of row i-1 times u, a column below it
\* the right neighbour times d, the centre column the entry above it
RECURSIVE Tri_stock_row(_, _)
Tri_stock_row(self, i) ==
    IF i = 0 THEN [j \in 0..(2 * self.N) |-> IF j = self.N THEN self.S0 ELSE Zero]
    ELSE LET prev == Tri_stock_row(self, i - 1)
         IN After(prev, Force([j \in 0..(2 * self.N) |->
                IF j < self.N - i \/ j > self.N + i THEN Zero
                ELSE IF j > self.N THEN RMul(prev[j - 1], self.u)
                ELSE IF j < self.N THEN RMul(prev[j + 1], self.d)
                ELSE prev[j]]))

Tri_stock_price_tree(self) == Force([i \in 0..self.N |-> Tri_stock_row(self, i)])

\* calculate_payoffs at one terminal price s, for a recognized option type
Tri_payoff_at(self, option_type, s) ==
    IF option_type \in {"european", "american"} THEN
        IF self.is_put THEN RMax(RSub(self.K, s), Zero) ELSE RMax(RSub(s, self.K), Zero)
    ELSE IF option_type = "power" THEN
        IF self.is_put THEN (IF RLt(s, self.K) THEN RPow(RSub(self.K, s), self.exponent) ELSE Zero)
        ELSE (IF RLt(self.K, s) THEN RPow(RSub(s, self.K), self.exponent) ELSE Zero)
    ELSE IF option_type = "digital" THEN
        IF self.is_put THEN (IF RLt(s, self.K) THEN One ELSE Zero)
        ELSE (IF RLt(self.K, s) THEN One ELSE Zero)
    ELSE \* "strangle"
        RAdd(IF RLt(self.K, s) THEN RSub(s, self.K) ELSE Zero,
             IF RLt(s, self.K2) THEN RSub(self.K2, s) ELSE Zero)

\* calculate_payoffs: the payoff vector over final_prices = stock_price_tree[-1]
Tri_calculate_payoffs(self, S, option_type) ==
    Force([j \in 0..(2 * self.N) |-> Tri_payoff_at(self, option_type, S[self.N][j])])

\* a backward iteration that visits every column of each row: range(2 * N + 1)
Tri_backward_nodes_every_column(self) ==
    UNION { { <<i, j>> : j \in 0..(2 * self.N) } : i \in 0..(self.N - 1) }

\* the nodes (i, j) the backward iteration visits: range(N - 1, -1, -1) x range(N - i, N + i + 1)
Tri_backward_nodes(self) ==
    UNION { { <<i, j>> : j \in (self.N - i)..(self.N + i) } : i \in 0..(self.N - 1) }

\* the lattice entries the backward iteration reads at node (i, j): up, mid and down in
\* the option price lattice, stock_up and stock_down in the price lattice
Tri_reads(i, j) ==
    { [tree |-> "option_price_tree", row |-> i + 1, col |-> c] : c \in {j - 1, j, j + 1} }
    \cup { [tree |-> "stock_price_tree", row |-> i + 1, col |-> c] : c \in {j - 1, j + 1} }

\* a backward step that tests early exercise on an American instance, in the manner of
\* the binomial class
Tri_node_value_with_early_exercise(self, next, j) ==
    LET continuation ==
            RMul(RAdd(RAdd(RMul(self.pu, next[j + 1]), RMul(self.pm, next[j])),
                      RMul(self.pd, next[j - 1])), self.df)
    IN IF self.is_am THEN RMax(continuation, next[j]) ELSE continuation

\* the value the backward iteration stores at node (i, j); next is row i+1 of the option lattice
Tri_node_value(self, next, j) ==
    RMul(RAdd(RAdd(RMul(self.pu, next[j + 1]), RMul(self.pm, next[j])),
              RMul(self.pd, next[j - 1])), self.df)

\* rows i..N of the option price lattice: zeros_like(stock_price_tree), last row the payoffs
RECURSIVE Tri_option_rows(_, _, _)
Tri_option_rows(self, payoffs, i) ==
    IF i = self.N THEN (i :> payoffs)
    ELSE LET rest == Tri_option_rows(self, payoffs, i + 1)
         IN After(rest, (i :> Force([j \in 0..(2 * self.N) |->
                    IF self.N - i <= j /\ j <= self.N + i
                    THEN Tri_node_value(self, rest[i + 1], j) ELSE Zero])) @@ rest)

Tri_option_price_tree(self, S, option_type) ==
    Tri_option_rows(self, Tri_calculate_payoffs(self, S, option_type), 0)

\* delta at node (i, j): (up - down) / (stock_up - stock_down) if stock_up != stock_down else 0
Tri_delta_at(S, V, i, j) ==
    LET stock_up == S[i + 1][j + 1]
        stock_down == S[i + 1][j - 1]
    IN IF stock_up # stock_down
       THEN PyDiv(RSub(V[i + 1][j + 1], V[i + 1][j - 1]), RSub(stock_up, stock_down))
       ELSE Zero

\* delta_tree = zeros_like(stock_price_tree), written at the nodes of the backward iteration
Tri_delta_tree(self, S, V) ==
    [i \in 0..self.N |-> [j \in 0..(2 * self.N) |->
        IF i < self.N /\ self.N - i <= j /\ j <= self.N + i THEN Tri_delta_at(S, V, i, j)
        ELSE Zero]]

\* the lattices zeros_like(stock_price_tree) holds before they are filled
Tri_zeros(self) == [i \in 0..self.N |-> [j \in 0..(2 * self.N) |-> Zero]]

----------------------------------------------------------------------------
(* Trinomialmodell: end-state probabilities *)

RECURSIVE IntPow(_, _)
IntPow(b, k) == IF k = 0 THEN 1 ELSE b * IntPow(b, k - 1)

\* format(i, f'0{N}o'): the octal digits of i, padded with zeros to width N (i < 8**N)
format_octal(i, N) == [p \in 1..N |-> (i \div IntPow(8, N - p)) % 8]

\* path.count(c)
count(path, c) == Cardinality({p \in DOMAIN path : path[p] = c})

\* the key (up_moves, mid_moves, down_moves) of path number i
end_state(i, N) ==
    LET path == format_octal(i, N)
    IN <<count(path, 0), count(path, 1), count(path, 2)>>

\* end_state_paths: for every key met in range(3**N), the number of paths with that key
end_state_paths(N) ==
    LET paths == 0..(IntPow(3, N) - 1)
    IN [k \in {end_state(i, N) : i \in paths} |->
            Cardinality({i \in paths : end_state(i, N) = k})]

\* the probability stored for a key: pu**up * pm**mid * pd**down * N! / (up! * mid! * down!)
Tri_probability(self, k) ==
    RMul(RMul(RMul(RPow(self.pu, k[1]), RPow(self.pm, k[2])), RPow(self.pd, k[3])),
         PyDiv(RInt(factorial(self.N)),
               RInt(factorial(k[1]) * factorial(k[2]) * factorial(k[3]))))

\* calculate_end_state_probabilities: the dictionary returned
calculate_end_state_probabilities(self) ==
    [k \in DOMAIN end_state_paths(self.N) |-> Tri_probability(self, k)]

----------------------------------------------------------------------------
(* Constructor arguments the model draws *)

\* initial stock price
Spots == {RInt(4)}

\* strike, second strike, digital payoff amount and power exponent
Contracts ==
    { [K |-> RInt(2), K2 |-> None, payoff |-> One, exponent |-> 2],
      [K |-> RInt(5), K2 |-> RInt(3), payoff |-> RInt(3), exponent |-> 2] }

\* the values of math.exp(r * dt) and math.exp(div * dt): no interest, interest, and a
\* growth above the up factor
Bin_Rates ==
    { [exp_r |-> One, exp_div |-> One],
      [exp_r |-> Rat(3, 2), exp_div |-> One],
      [exp_r |-> RInt(3), exp_div |-> One] }

\* sigma given (exp_sigma = math.exp(sigma * sqrt(dt)); 1 is sigma = 0), or sigma = None
\* with pu, pd given or missing
Bin_Calibrations ==
    { [exp_sigma |-> RInt(2), pu |-> None, pd |-> None],
      [exp_sigma |-> One, pu |-> None, pd |-> None],
      [exp_sigma |-> None, pu |-> Rat(1, 2), pd |-> Rat(1, 2)],
      [exp_sigma |-> None, pu |-> One, pd |-> One],
      [exp_sigma |-> None, pu |-> Zero, pd |-> Rat(1, 2)],
      [exp_sigma |-> None, pu |-> Zero, pd |-> Zero],
      [exp_sigma |-> None, pu |-> None, pd |-> Rat(1, 2)],
      [exp_sigma |-> None, pu |-> Rat(1, 2), pd |-> None],
      [exp_sigma |-> None, pu |-> None, pd |-> None] }

Bin_Args ==
    { [S0 |-> s0, K |-> c.K, K2 |-> c.K2, T |-> One, N |-> n, is_put |-> p, is_am |-> am,
       exponent |-> c.exponent, payoff |-> c.payoff,
       exp_sigma |-> cal.exp_sigma, exp_r |-> r.exp_r, exp_div |-> r.exp_div,
       pu |-> cal.pu, pd |-> cal.pd] :
        s0 \in Spots, c \in Contracts, n \in (-1)..MaxN, p \in BOOLEAN,
        am \in BOOLEAN, cal \in Bin_Calibrations, r \in Bin_Rates }

\* the values of math.exp(r * dt / 2) and math.exp(div * dt / 2)
Tri_Rates ==
    { [exp_r |-> One, exp_div |-> One],
      [exp_r |-> RInt(2), exp_div |-> Rat(8, 5)],
      [exp_r |-> One, exp_div |-> Rat(1, 3)] }

\* sigma given (exp_sigma = math.exp(sigma * sqrt(dt / 2))), or sigma = None with the
\* direct parameters u, d, m, pu, pd, pm given or partly missing
Tri_Calibrations ==
    { [exp_sigma |-> RInt(2), u |-> None, d |-> None, m |-> None,
       pu |-> None, pd |-> None, pm |-> None],
      [exp_sigma |-> One, u |-> None, d |-> None, m |-> None,
       pu |-> None, pd |-> None, pm |-> None],
      [exp_sigma |-> None, u |-> RInt(2), d |-> Rat(1, 2), m |-> One,
       pu |-> Rat(1, 4), pd |-> Rat(1, 4), pm |-> Rat(1, 2)],
      [exp_sigma |-> None, u |-> RInt(2), d |-> Rat(1, 2), m |-> Rat(3, 2),
       pu |-> Rat(1, 4), pd |-> Rat(1, 4), pm |-> Rat(1, 2)],
      [exp_sigma |-> None, u |-> One, d |-> One, m |-> One,
       pu |-> Rat(1, 2), pd |-> Rat(1, 2), pm |-> Rat(1, 2)],
      [exp_sigma |-> None, u |-> Rat(1, 2), d |-> RInt(2), m |-> One,
       pu |-> Rat(1, 4), pd |-> Rat(1, 4), pm |-> Rat(1, 2)],
      [exp_sigma |-> None, u |-> RInt(2), d |-> Rat(1, 2), m |-> One,
       pu |-> Rat(1, 4), pd |-> Rat(1, 4), pm |-> None],
      [exp_sigma |-> None, u |-> None, d |-> Rat(1, 2), m |-> One,
       pu |-> Rat(1, 4), pd |-> Rat(1, 4), pm |-> Rat(1, 2)] }

Tri_Args ==
    { [S0 |-> s0, K |-> c.K, K2 |-> c.K2, T |-> One, N |-> n, is_put |-> p, is_am |-> am,
       exponent |-> c.exponent,
       exp_sigma |-> cal.exp_sigma, exp_r |-> r.exp_r, exp_div |-> r.exp_div,
       u |-> cal.u, d |-> cal.d, m |-> cal.m, pu |-> cal.pu, pd |-> cal.pd, pm |-> cal.pm] :
        s0 \in Spots, c \in Contracts, n \in (-1)..Tri_MaxN, p \in BOOLEAN,
        am \in BOOLEAN, cal \in Tri_Calibrations, r \in Tri_Rates }

----------------------------------------------------------------------------
(* The instance and the calls on it *)

\* the callers that may price concurrently on one instance, and a caller with no call
Threads == {1, 2}
IdleThread == [pc |-> "idle", option_type |-> "", status |-> "", value |-> None]
NoThreads == [t \in Threads |-> IdleThread]

\* a pricing call for option_type directly follows one that returned a price for another type
Supersedes(option_type) ==
    ret.op = "price_option" /\ ret.status = "ok" /\ ret.arg # option_type

Init ==
    /\ model = NoModel
    /\ stock_price_tree = Unset
    /\ option_price_tree = Unset
    /\ delta_tree = Unset
    /\ end_state_probabilities = Unset
    /\ ret = Returned("none", "", None)
    /\ superseded = FALSE
    /\ threads = NoThreads

\* Binomialmodell(**a), the one construction of a run: the calibration raises, or a fresh
\* instance without lattices exists
Bin_init(a) ==
    /\ LET c == Bin_calibration(a)
       IN IF c.exc # ""
          THEN /\ ret' = Raised("Binomialmodell", a, c.exc)
               /\ UNCHANGED model
          ELSE /\ model' = Binomialmodell(a)
               /\ ret' = Returned("Binomialmodell", a, None)
    /\ UNCHANGED <<stock_price_tree, option_price_tree, delta_tree, end_state_probabilities,
                   superseded, threads>>

\* Trinomialmodell(**a), likewise
Tri_init(a) ==
    /\ LET c == Tri_calibration(a)
       IN IF c.exc # ""
          THEN /\ ret' = Raised("Trinomialmodell", a, c.exc)
               /\ UNCHANGED model
          ELSE /\ model' = Trinomialmodell(a)
               /\ ret' = Returned("Trinomialmodell", a, None)
    /\ UNCHANGED <<stock_price_tree, option_price_tree, delta_tree, end_state_probabilities,
                   superseded, threads>>

\* price_option that allocates delta_tree only while the attribute does not exist yet
Bin_price_option_keeping_delta(option_type) ==
    /\ model.kind = "binomial"
    /\ LET S == Bin_stock_price_tree(model)
       IN /\ stock_price_tree' = S
          /\ IF option_type \notin Families
             THEN /\ ret' = Raised("price_option", option_type, "ValueError")
                  /\ UNCHANGED <<option_price_tree, delta_tree, end_state_probabilities>>
             ELSE LET V == Bin_option_price_tree(model, S, option_type)
                  IN /\ option_price_tree' = V
                     /\ delta_tree' = IF delta_tree = Unset THEN Bin_delta_tree(model, S, V)
                                      ELSE delta_tree
                     /\ end_state_probabilities' = Bin_end_state_probabilities(model)
                     /\ ret' = Returned("price_option", option_type, V[0][0])
    /\ superseded' = Supersedes(option_type)
    /\ UNCHANGED <<model, threads>>

\* Binomialmodell.price_option(option_type): init_full_tree, then option_price_tree[0, 0].
\* An unknown option type raises ValueError in calculate_payoffs, after the stock price
\* lattice was stored and before any other attribute is assigned.
Bin_price_option(option_type) ==
    /\ model.kind = "binomial"
    /\ LET S == Bin_stock_price_tree(model)
       IN /\ stock_price_tree' = S
          /\ IF option_type \notin Families
             THEN /\ ret' = Raised("price_option", option_type, "ValueError")
                  /\ UNCHANGED <<option_price_tree, delta_tree, end_state_probabilities>>
             ELSE LET V == Bin_option_price_tree(model, S, option_type)
                  IN /\ option_price_tree' = V
                     /\ delta_tree' = Bin_delta_tree(model, S, V)
                     /\ end_state_probabilities' = Bin_end_state_probabilities(model)
                     /\ ret' = Returned("price_option", option_type, V[0][0])
    /\ superseded' = Supersedes(option_type)
    /\ UNCHANGED <<model, threads>>

\* price_option that first renormalises the middle probability, self.pm = 1 - pu - pd
Tri_price_option_renormalising(option_type) ==
    /\ model.kind = "trinomial"
    /\ model' = [model EXCEPT !.pm = RSub(RSub(One, model.pu), model.pd)]
    /\ IF model.N < 0
       THEN /\ ret' = Raised("price_option", option_type, "ValueError")
            /\ UNCHANGED <<stock_price_tree, option_price_tree, delta_tree>>
       ELSE LET S == Tri_stock_price_tree(model')
            IN /\ stock_price_tree' = S
               /\ IF option_type \notin Families
                  THEN /\ option_price_tree' = Tri_zeros(model)
                       /\ delta_tree' = Tri_zeros(model)
                       /\ ret' = Raised("price_option", option_type, "ValueError")
                  ELSE LET V == Tri_option_price_tree(model', S, option_type)
                       IN /\ option_price_tree' = V
                          /\ delta_tree' = Tri_delta_tree(model', S, V)
                          /\ ret' = Returned("price_option", option_type, V[0][model.N])
    /\ superseded' = Supersedes(option_type)
    /\ UNCHANGED <<end_state_probabilities, threads>>

\* Trinomialmodell.price_option(option_type): init_full_tree, then option_price_tree[0, N].
\* np.zeros raises ValueError for a negative dimension (N < 0) before anything is stored;
\* an unknown option type raises ValueError in calculate_payoffs, after the stock price
\* lattice was stored and the other two lattices were reset to zeros.
Tri_price_option(option_type) ==
    /\ model.kind = "trinomial"
    /\ IF model.N < 0
       THEN /\ ret' = Raised("price_option", option_type, "ValueError")
            /\ UNCHANGED <<stock_price_tree, option_price_tree, delta_tree>>
       ELSE LET S == Tri_stock_price_tree(model)
            IN /\ stock_price_tree' = S
               /\ IF option_type \notin Families
                  THEN /\ option_price_tree' = Tri_zeros(model)
                       /\ delta_tree' = Tri_zeros(model)
                       /\ ret' = Raised("price_option", option_type, "ValueError")
                  ELSE LET V == Tri_option_price_tree(model, S, option_type)
                       IN /\ option_price_tree' = V
                          /\ delta_tree' = Tri_delta_tree(model, S, V)
                          /\ ret' = Returned("price_option", option_type, V[0][model.N])
    /\ superseded' = Supersedes(option_type)
    /\ UNCHANGED <<model, end_state_probabilities, threads>>

\* Trinomialmodell.calculate_end_state_probabilities(): returns the dictionary and stores
\* nothing.  3**N is a float for N < 0 and range() of it raises TypeError.  The outcome
\* carries the local end_state_paths beside the returned dictionary.
Tri_calculate_end_state_probabilities ==
    /\ model.kind = "trinomial"
    /\ IF model.N < 0
       THEN ret' = Raised("calculate_end_state_probabilities", "", "TypeError")
       ELSE ret' = [op |-> "calculate_end_state_probabilities", arg |-> "", status |-> "ok",
                    exc |-> "", value |-> calculate_end_state_probabilities(model),
                    end_state_paths |-> end_state_paths(model.N)]
    /\ UNCHANGED <<model, stock_price_tree, option_price_tree, delta_tree,
                   end_state_probabilities, superseded, threads>>

\* no instance was constructed yet, and no construction has failed
Fresh == model = NoModel /\ ret.op = "none"

Next ==
    \/ Fresh /\ \E a \in Bin_Args : Bin_init(a)
    \/ Fresh /\ \E a \in Tri_Args : Tri_init(a)
    \/ \E t \in OptionTypes : Bin_price_option(t)
    \/ \E t \in OptionTypes : Tri_price_option(t)
    \/ Tri_calculate_end_state_probabilities

Spec == Init /\ [][Next]_vars

----------------------------------------------------------------------------
(* Concurrent pricing calls on one instance *)

\* largest step count of the instances the concurrent callers share
Thr_MaxN == 2

\* the instances the concurrent callers share: volatility-calibrated, strike 2, N >= 1
Thr_Bin_Args ==
    {a \in Bin_Args : /\ a.N \in 1..Thr_MaxN /\ a.K = RInt(2)
                      /\ a.exp_sigma = RInt(2) /\ a.exp_r = Rat(3, 2)}
Thr_Tri_Args ==
    {a \in Tri_Args : /\ a.N \in 1..Thr_MaxN /\ a.K = RInt(2) /\ ~a.is_am
                      /\ a.exp_sigma = RInt(2) /\ a.exp_r = RInt(2)}

\* a constructed instance without lattices, and no caller yet
Thr_Init ==
    /\ \/ \E a \in Thr_Bin_Args :
            model = Binomialmodell(a) /\ ret = Returned("Binomialmodell", a, None)
       \/ \E a \in Thr_Tri_Args :
            model = Trinomialmodell(a) /\ ret = Returned("Trinomialmodell", a, None)
    /\ stock_price_tree = Unset
    /\ option_price_tree = Unset
    /\ delta_tree = Unset
    /\ end_state_probabilities = Unset
    /\ superseded = FALSE
    /\ threads = NoThreads

\* caller t enters price_option(option_type)
Thr_call(t, option_type) ==
    /\ threads[t].pc = "idle"
    /\ threads' = [threads EXCEPT ![t] = [pc |-> "init_full_tree", option_type |-> option_type,
                                          status |-> "", value |-> None]]
    /\ UNCHANGED <<model, stock_price_tree, option_price_tree, delta_tree,
                   end_state_probabilities, ret, superseded>>

\* the caller's call has raised ValueError
Thr_raised(t) == [threads EXCEPT ![t].pc = "done", ![t].status = "raise"]

\* caller t runs self.init_full_tree(option_type) of price_option on the shared instance
Thr_init_full_tree(t) ==
    /\ threads[t].pc = "init_full_tree"
    /\ LET option_type == threads[t].option_type
       IN IF model.kind = "binomial"
          THEN LET S == Bin_stock_price_tree(model)
               IN /\ stock_price_tree' = S
                  /\ IF option_type \notin Families
                     THEN /\ threads' = Thr_raised(t)
                          /\ UNCHANGED <<option_price_tree, delta_tree, end_state_probabilities>>
                     ELSE LET V == Bin_option_price_tree(model, S, option_type)
                          IN /\ option_price_tree' = V
                             /\ delta_tree' = Bin_delta_tree(model, S, V)
                             /\ end_state_probabilities' = Bin_end_state_probabilities(model)
                             /\ threads' = [threads EXCEPT ![t].pc = "return"]
          ELSE /\ UNCHANGED end_state_probabilities
               /\ IF model.N < 0
                  THEN /\ threads' = Thr_raised(t)
                       /\ UNCHANGED <<stock_price_tree, option_price_tree, delta_tree>>
                  ELSE LET S == Tri_stock_price_tree(model)
                       IN /\ stock_price_tree' = S
                          /\ IF option_type \notin Families
                             THEN /\ option_price_tree' = Tri_zeros(model)
                                  /\ delta_tree' = Tri_zeros(model)
                                  /\ threads' = Thr_raised(t)
                             ELSE LET V == Tri_option_price_tree(model, S, option_type)
                                  IN /\ option_price_tree' = V
                                     /\ delta_tree' = Tri_delta_tree(model, S, V)
                                     /\ threads' = [threads EXCEPT ![t].pc = "return"]
    /\ UNCHANGED <<model, ret, superseded>>

\* the return statement reading the centre column in both classes
Thr_root_centre == option_price_tree[0][model.N]

\* the entry of self.option_price_tree the return statement of price_option reads
Thr_root == IF model.kind = "binomial" THEN option_price_tree[0][0]
            ELSE option_price_tree[0][model.N]

\* caller t runs the return statement of price_option
Thr_return(t) ==
    /\ threads[t].pc = "return"
    /\ threads' = [threads EXCEPT ![t].pc = "done", ![t].status = "ok", ![t].value = Thr_root]
    /\ UNCHANGED <<model, stock_price_tree, option_price_tree, delta_tree,
                   end_state_probabilities, ret, superseded>>

Thr_Next ==
    \/ \E t \in Threads : \E option_type \in OptionTypes : Thr_call(t, option_type)
    \/ \E t \in Threads : Thr_init_full_tree(t)
    \/ \E t \in Threads : Thr_return(t)

SpecThreads == Thr_Init /\ [][Thr_Next]_vars

----------------------------------------------------------------------------
(* Properties *)

\* the last call was a pricing call on an instance of the given class, and it returned
Priced(kind) == model.kind = kind /\ ret.op = "price_option" /\ ret.status = "ok"

\* the sum of the values of f over the keys D
RECURSIVE RSum(_, _)
RSum(f, D) ==
    IF D = {} THEN Zero
    ELSE LET k == CHOOSE x \in D : TRUE
         IN RAdd(f[k], RSum(f, D \ {k}))

\* immediate-exercise value of the vanilla option at the node's own stock price s
ExerciseValue(s) ==
    IF model.is_call THEN RMax(Zero, RSub(s, model.K)) ELSE RMax(Zero, RSub(model.K, s))

\* C1: in the binomial model with is_am set, after pricing the American family every
\* node (i, j), j <= i < N, holds max(C, E): C the discounted expectation of its two
\* children, E the immediate-exercise value at the node's own stock price S(i, j).
C1_NodeIsMaxOfContinuationAndOwnExercise ==
    (Priced("binomial") /\ model.is_am /\ ret.arg = "american") =>
        \A i \in 0..(model.N - 1) : \A j \in 0..i :
            option_price_tree[i][j] =
                RMax(Bin_continuation(model, option_price_tree[i + 1], j),
                     ExerciseValue(stock_price_tree[i][j]))

\* the move-count triples (up, mid, down) of N steps
Triples(N) == {k \in (0..N) \X (0..N) \X (0..N) : k[1] + k[2] + k[3] = N}

\* the last call was calculate_end_state_probabilities, and it returned
Distributed == ret.op = "calculate_end_state_probabilities" /\ ret.status = "ok"

\* C2: the trinomial end-state computation returns exactly one entry for each triple
\* (up, mid, down) with up + mid + down = N and none for any other key, and the number
\* of paths it tallies for a triple is N! / (up! * mid! * down!).
C2_OneEntryPerTripleWithMultinomialTally ==
    Distributed =>
        /\ DOMAIN ret.value = Triples(model.N)
        /\ \A k \in DOMAIN ret.end_state_paths :
              ret.end_state_paths[k] * factorial(k[1]) * factorial(k[2]) * factorial(k[3])
                  = factorial(model.N)

\* C3: when pu + pm + pd = 1, the values of the trinomial end-state distribution sum to 1.
C3_TrinomialDistributionSumsToOne ==
    (Distributed /\ RAdd(RAdd(model.pu, model.pm), model.pd) = One) =>
        RSum(ret.value, DOMAIN ret.value) = One

\* the last call was a pricing call, and it returned
PricedAny == ret.op = "price_option" /\ ret.status = "ok"

\* C4: after a successful pricing call on either class, the price lattice, the option
\* price lattice, the delta lattice and the end-state distribution all exist on the instance.
C4_AllFourArtifactsPopulated ==
    PricedAny =>
        /\ stock_price_tree # Unset
        /\ option_price_tree # Unset
        /\ delta_tree # Unset
        /\ end_state_probabilities # Unset

\* the columns of the terminal row that hold a node
TerminalColumns == IF model.kind = "binomial" THEN 0..model.N ELSE 0..(2 * model.N)

\* the digital amount an instance is configured with: the payoff argument of the
\* binomial constructor; the trinomial constructor has no such argument and pays 1
DigitalAmount == IF model.kind = "binomial" THEN model.payoff ELSE One

\* C5: for the digital family, in both classes, every terminal node holds the configured
\* amount when it is in the money and 0 otherwise; a call is in the money iff S_T > K,
\* a put iff S_T <= K.
C5_DigitalPayoffBoundary ==
    (PricedAny /\ ret.arg = "digital") =>
        \A j \in TerminalColumns :
            LET s == stock_price_tree[model.N][j]
                itm == IF model.is_put THEN RLe(s, model.K) ELSE RLt(model.K, s)
            IN option_price_tree[model.N][j] = IF itm THEN DigitalAmount ELSE Zero

\* C6: pricing the American family on a binomial instance tests early exercise at every
\* node (i, j), j <= i < N, whatever flags the instance was built with: the node holds
\* the larger of its continuation value and the result of check_early_exercise.
C6_AmericanFamilyTestsEarlyExercise ==
    (Priced("binomial") /\ ret.arg = "american") =>
        \A i \in 0..(model.N - 1) : \A j \in 0..i :
            option_price_tree[i][j] =
                Bin_node_value([model EXCEPT !.is_am = TRUE], stock_price_tree,
                               option_price_tree[i + 1], i, j)

\* C7: in both classes, after a pricing call every node (i, j), i < N, whose up-child and
\* down-child stock prices are equal holds delta 0 (no nan, no infinity).
C7_DeltaZeroOnEqualChildPrices ==
    PricedAny =>
        IF model.kind = "binomial"
        THEN \A i \in 0..(model.N - 1) : \A j \in 0..i :
                stock_price_tree[i + 1][j] = stock_price_tree[i + 1][j + 1]
                    => delta_tree[i][j] = Zero
        ELSE \A i \in 0..(model.N - 1) : \A j \in (model.N - i)..(model.N + i) :
                stock_price_tree[i + 1][j + 1] = stock_price_tree[i + 1][j - 1]
                    => delta_tree[i][j] = Zero

\* the price the same binomial instance returns for the European family without early exercise
EuropeanPrice ==
    Bin_option_price_tree([model EXCEPT !.is_am = FALSE], stock_price_tree, "european")[0][0]

\* an American put was priced on a binomial instance with early exercise in effect
AmericanPutPriced ==
    Priced("binomial") /\ model.is_am /\ model.is_put /\ ret.arg = "american"

\* C8: for identical parameters the binomial American put price, early exercise in
\* effect, is at least the binomial European put price.
C8_AmericanPutAtLeastEuropeanPut ==
    AmericanPutPriced => RLe(EuropeanPrice, ret.value)

\* a direct parameter of the binomial or of the trinomial calibration is missing
Bin_DirectIncomplete(a) == IsNone(a.pu) \/ IsNone(a.pd)
Tri_DirectIncomplete(a) ==
    \E x \in {a.u, a.d, a.m, a.pu, a.pd, a.pm} : IsNone(x)

\* the last call was a construction without volatility and with an incomplete set of
\* direct parameters
IncompleteConstruction ==
    \/ ret.op = "Binomialmodell" /\ IsNone(ret.arg.exp_sigma) /\ Bin_DirectIncomplete(ret.arg)
    \/ ret.op = "Trinomialmodell" /\ IsNone(ret.arg.exp_sigma) /\ Tri_DirectIncomplete(ret.arg)

\* C9: constructing either class with no volatility and an incomplete set of direct
\* parameters fails with the error kind of an unknown option family (ValueError), and no
\* instance is produced.
C9_IncompleteCalibrationRaisesValueError ==
    IncompleteConstruction =>
        /\ ret.status = "raise"
        /\ ret.exc = "ValueError"
        /\ model = NoModel

\* C10: the trinomial class rejects every N < 1 with ValueError, at construction or at the
\* start of the pricing call; N is not floored and no price is returned for such an N.
C10_TrinomialRejectsStepCountBelowOne ==
    /\ (ret.op = "Trinomialmodell" /\ ret.arg.N < 1) =>
            \/ ret.status = "raise" /\ ret.exc = "ValueError" /\ model = NoModel
            \/ ret.status = "ok" /\ model.N = ret.arg.N
    /\ (model.kind = "trinomial" /\ model.N < 1 /\ ret.op = "price_option") =>
            ret.status = "raise" /\ ret.exc = "ValueError"

\* the families of the option contract: european, american, digital, power, strangle
ContractFamilies == {"european", "american", "digital", "power", "strangle"}

\* C11: a pricing call with an option family outside the five contract families fails
\* with ValueError, in both classes, and returns no price.
C11_UnknownFamilyRaisesValueError ==
    (ret.op = "price_option" /\ ret.arg \notin ContractFamilies) =>
        /\ ret.status = "raise"
        /\ ret.exc = "ValueError"
        /\ IsNone(ret.value)

\* a trinomial instance with N >= 1 was asked for the family "asian" after it had priced
\* another family, and the call raised
C11_Witness ==
    /\ model.kind = "trinomial" /\ model.N >= 1
    /\ ret.op = "price_option" /\ ret.arg = "asian" /\ ret.status = "raise"
    /\ stock_price_tree # Unset

\* C12: on every constructed instance the transition probabilities of the siblings of one
\* node sum to 1: qu + qd = 1 in the binomial class, pu + pm + pd = 1 in the trinomial class,
\* whichever calibration produced them.
C12_SiblingProbabilitiesSumToOne ==
    /\ model.kind = "binomial" => RAdd(model.qu, model.qd) = One
    /\ model.kind = "trinomial" => RAdd(RAdd(model.pu, model.pm), model.pd) = One

\* x is a probability: 0 <= x <= 1
InUnitInterval(x) == IsFinite(x) /\ RLe(Zero, x) /\ RLe(x, One)

\* C13: every value of the end-state distribution lies in [0, 1]: each of the N + 1 entries
\* the binomial pricing call stores, each value of the dictionary the trinomial
\* computation returns.
C13_EndStateValuesAreProbabilities ==
    /\ Priced("binomial") =>
            \A k \in 0..model.N : InUnitInterval(end_state_probabilities[k])
    /\ Distributed => \A k \in DOMAIN ret.value : InUnitInterval(ret.value[k])

\* what price_option(option_type) returns and stores as the first call on a fresh instance
\* built from the constructor inputs of the instance; a trinomial instance gets no
\* end_state_probabilities attribute
FirstCall(option_type) ==
    IF model.kind = "binomial"
    THEN LET S == Bin_stock_price_tree(model)
             V == Bin_option_price_tree(model, S, option_type)
         IN [price |-> V[0][0], stock_price_tree |-> S, option_price_tree |-> V,
             delta_tree |-> Bin_delta_tree(model, S, V),
             end_state_probabilities |-> Bin_end_state_probabilities(model)]
    ELSE LET S == Tri_stock_price_tree(model)
             V == Tri_option_price_tree(model, S, option_type)
         IN [price |-> V[0][model.N], stock_price_tree |-> S, option_price_tree |-> V,
             delta_tree |-> Tri_delta_tree(model, S, V),
             end_state_probabilities |-> Unset]

\* C14: after any sequence of pricing calls on one instance, the price a successful call
\* returns and the lattices and distribution it leaves are those of the same call made
\* first on a fresh instance with the same constructor inputs.
C14_ArtifactsFullySuperseded ==
    PricedAny =>
        LET first == FirstCall(ret.arg)
        IN /\ ret.value = first.price
           /\ stock_price_tree = first.stock_price_tree
           /\ option_price_tree = first.option_price_tree
           /\ delta_tree = first.delta_tree
           /\ end_state_probabilities = first.end_state_probabilities

\* a binomial instance returned a price for one option type directly after it had returned
\* a price for another, and the two calls left different option price lattices
C14_Witness ==
    /\ Priced("binomial") /\ superseded /\ model.N >= 2
    /\ ret.arg = "digital"
    /\ option_price_tree # FirstCall("european").option_price_tree

\* A is an array of the given shape
HasShape(A, rows, cols) ==
    /\ DOMAIN A = 0..(rows - 1)
    /\ \A i \in DOMAIN A : DOMAIN A[i] = 0..(cols - 1)

\* the number of columns of the price lattice of the instance
Columns == IF model.kind = "binomial" THEN model.N + 1 ELSE 2 * model.N + 1

\* C15 as stated: after every pricing call the option price lattice and the delta lattice
\* have the shape of the price lattice, (N+1) x (N+1) binomial and (N+1) x (2N+1) trinomial.
C15_LatticesShapedLikePriceLattice ==
    ret.op = "price_option" =>
        /\ HasShape(option_price_tree, model.N + 1, Columns)
        /\ HasShape(delta_tree, model.N + 1, Columns)

\* C15 amended: after every pricing call that returns a price, the price lattice and the
\* option price lattice have the shape (N+1) x (N+1) binomial and (N+1) x (2N+1)
\* trinomial; the delta lattice has that shape in the trinomial class and the shape N x N
\* in the binomial class.
C15_ShapesAfterPricing ==
    PricedAny =>
        /\ HasShape(stock_price_tree, model.N + 1, Columns)
        /\ HasShape(option_price_tree, model.N + 1, Columns)
        /\ IF model.kind = "binomial" THEN HasShape(delta_tree, model.N, model.N)
           ELSE HasShape(delta_tree, model.N + 1, Columns)

\* a binomial instance with N = 2 returned a price and holds a 2 x 2 delta lattice beside
\* a 3 x 3 price lattice
C15_Witness ==
    /\ Priced("binomial") /\ model.N = 2
    /\ HasShape(delta_tree, 2, 2)
    /\ HasShape(stock_price_tree, 3, 3)

\* caller t's call returned a value other than the one the same call returns when it runs
\* alone on the instance
Diverged(t) ==
    /\ threads[t].pc = "done" /\ threads[t].status = "ok"
    /\ threads[t].value # FirstCall(threads[t].option_type).price

\* caller u ran init_full_tree for an option type other than caller t's
Overlapped(t, u) ==
    /\ u # t
    /\ threads[u].pc \in {"return", "done"}
    /\ threads[u].option_type # threads[t].option_type

\* C16: two pricing calls for different option types running concurrently on one instance
\* are unsafe: a call can return a root value other than the one it returns alone
\* (the state C16_Witness), and it does so only when the other caller's init_full_tree for
\* another option type ran on the instance as well.
C16_DivergenceComesFromTheOtherCall ==
    \A t \in Threads : Diverged(t) => \E u \in Threads : Overlapped(t, u)

\* both callers asked for different families, both calls returned, and caller 1 returned
\* a root value that is not the one its call returns alone
C16_Witness ==
    /\ Diverged(1)
    /\ threads[2].pc = "done" /\ threads[2].status = "ok"
    /\ threads[1].option_type = "european" /\ threads[2].option_type = "digital"

\* C17: a pricing call, whether it returns or raises, leaves the calibrated parameters of
\* the instance (N, dt, df, u, d, m and the transition probabilities) as construction set them.
C17_PricingLeavesParametersUnchanged ==
    [][ret'.op = "price_option" => model' = model]_vars

\* a trinomial instance whose supplied probabilities do not sum to 1 has answered a second
\* pricing call
C17_Witness ==
    /\ Priced("trinomial") /\ superseded
    /\ RAdd(RAdd(model.pu, model.pm), model.pd) # One

\* the strangle payoff at terminal price s: a call leg at K plus a put leg at K2
StranglePayoff(s) ==
    RAdd(RMax(Zero, RSub(s, model.K)), RMax(Zero, RSub(model.K2, s)))

\* the instance with the put/call flag flipped
Flipped == [model EXCEPT !.is_put = ~model.is_put, !.is_call = ~model.is_call]

\* the terminal payoffs calculate_payoffs gives the flipped instance for the strangle family
FlippedStranglePayoffs ==
    IF model.kind = "binomial"
    THEN Bin_calculate_payoffs(Flipped, stock_price_tree, "strangle")
    ELSE Tri_calculate_payoffs(Flipped, stock_price_tree, "strangle")

\* C18: for the strangle family, in both classes, every terminal node holds
\* max(0, S - K) + max(0, K2 - S), and the same value whether is_put is set or not.
C18_StranglePayoffIgnoresIsPut ==
    (PricedAny /\ ret.arg = "strangle") =>
        \A j \in TerminalColumns :
            /\ option_price_tree[model.N][j] = StranglePayoff(stock_price_tree[model.N][j])
            /\ option_price_tree[model.N][j] = FlippedStranglePayoffs[j]

\* a put instance with two different strikes priced a strangle whose terminal row has a
\* node paying the call leg and a node paying the put leg
C18_Witness ==
    /\ PricedAny /\ ret.arg = "strangle" /\ model.is_put /\ model.K2 # model.K
    /\ \E j \in TerminalColumns :
          /\ RLt(model.K, stock_price_tree[model.N][j])
          /\ RLt(Zero, option_price_tree[model.N][j])
    /\ \E j \in TerminalColumns :
          /\ RLt(stock_price_tree[model.N][j], model.K2)
          /\ RLt(Zero, option_price_tree[model.N][j])

WithOneStep == [ret.arg EXCEPT !.N = 1]

\* C20: constructing the binomial class with a step count N < 1 raises no error for it and
\* gives the instance that N = 1 gives, step count 1 and every other field the pricing
\* call reads included, so that every later pricing call behaves as on that instance.
C20_BinomialFloorsStepCountToOne ==
    (ret.op = "Binomialmodell" /\ ret.arg.N < 1) =>
        IF Bin_calibration(WithOneStep).exc # ""
        THEN ret.status = "raise" /\ ret.exc = Bin_calibration(WithOneStep).exc
        ELSE /\ ret.status = "ok"
             /\ model.N = 1
             /\ model = Binomialmodell(WithOneStep)

\* the binomial constructor was called with a negative step count and returned an
\* instance with one step
C20_Witness ==
    /\ ret.op = "Binomialmodell" /\ ret.arg.N < 0 /\ ret.status = "ok"
    /\ model.kind = "binomial" /\ model.N = 1 /\ model.dt = One

\* C21: a pricing call that raises for an unrecognized option family leaves the price
\* lattice, the option price lattice, the delta lattice and the end-state distribution of
\* the previous successful call as they were; the option price and delta lattices are
\* not reset.
C21_FailingCallKeepsArtifacts ==
    [][(PricedAny /\ ret'.op = "price_option" /\ ret'.status = "raise"
            /\ ret'.arg \notin ContractFamilies) =>
        UNCHANGED <<stock_price_tree, option_price_tree, delta_tree,
                    end_state_probabilities>>]_vars

\* a trinomial instance holds a price lattice
TrinomialLattice == model.kind = "trinomial" /\ stock_price_tree # Unset

\* C22: the trinomial price lattice is built step by step: at step i a column above the
\* centre holds its left neighbour of step i-1 times u, a column below the centre its right
\* neighbour times d, and the centre column (j = N) the centre of step i-1 times m, for
\* every supplied m.
C22_CentreColumnMultipliedByM ==
    TrinomialLattice =>
        \A i \in 1..model.N : \A j \in (model.N - i)..(model.N + i) :
            stock_price_tree[i][j] =
                IF j > model.N THEN RMul(stock_price_tree[i - 1][j - 1], model.u)
                ELSE IF j < model.N THEN RMul(stock_price_tree[i - 1][j + 1], model.d)
                ELSE RMul(stock_price_tree[i - 1][j], model.m)

\* C23: the entry j of the binomial end-state distribution is the probability of the
\* terminal node at lattice position j, whose price S0 * u^(N-j) * d^j is reached by N-j
\* up-moves and j down-moves: C(N, j) * qu^(N-j) * qd^j.
C23_EndStateIndexedByLatticePosition ==
    Priced("binomial") =>
        \A j \in 0..model.N :
            end_state_probabilities[j] =
                RMul(RMul(combos(model.N, j), RPow(model.qu, model.N - j)),
                     RPow(model.qd, j))

\* C24: in the trinomial price lattice every node (i, j) with i < N and N-i <= j <= N+i
\* has the up successor lattice[i+1][j+1] = lattice[i][j] * u, the middle successor
\* lattice[i+1][j] = lattice[i][j] * m and the down successor
\* lattice[i+1][j-1] = lattice[i][j] * d, in both calibration modes.
C24_EveryNodeHasThreeSuccessors ==
    TrinomialLattice =>
        \A i \in 0..(model.N - 1) : \A j \in (model.N - i)..(model.N + i) :
            /\ stock_price_tree[i + 1][j + 1] = RMul(stock_price_tree[i][j], model.u)
            /\ stock_price_tree[i + 1][j] = RMul(stock_price_tree[i][j], model.m)
            /\ stock_price_tree[i + 1][j - 1] = RMul(stock_price_tree[i][j], model.d)

\* C25: on a binomial instance without early exercise (is_am false) every node (i, j),
\* 0 <= j <= i < N, of the option price lattice holds df * (qu * V(i+1, j) + qd * V(i+1, j+1)),
\* the terminal row is the payoff vector of the requested family, and the call returns V(0, 0).
C25_BinomialRecurrenceWithoutEarlyExercise ==
    (Priced("binomial") /\ ~model.is_am) =>
        /\ \A i \in 0..(model.N - 1) : \A j \in 0..i :
                option_price_tree[i][j] =
                    RMul(model.df, RAdd(RMul(model.qu, option_price_tree[i + 1][j]),
                                        RMul(model.qd, option_price_tree[i + 1][j + 1])))
        /\ \A j \in 0..model.N :
                option_price_tree[model.N][j] =
                    Bin_payoff_at(model, ret.arg, stock_price_tree[model.N][j])
        /\ ret.value = option_price_tree[0][0]

\* a binomial price without early exercise over two steps or more, with unequal weights
\* and a terminal row that is not constant
C25_Witness ==
    /\ Priced("binomial") /\ ~model.is_am /\ model.N >= 2
    /\ model.qu # model.qd
    /\ option_price_tree[model.N][0] # option_price_tree[model.N][model.N]
    /\ IsFinite(ret.value) /\ ret.value # Zero

\* the price a trinomial instance with the same parameters and the given is_am flag
\* returns for the European family
Tri_EuropeanPrice(am) ==
    Tri_option_price_tree([model EXCEPT !.is_am = am], stock_price_tree, "european")[0][model.N]

\* C26: on a trinomial instance every node (i, j), i < N and N-i <= j <= N+i, of the option
\* price lattice holds df * (pu * V(i+1, j+1) + pm * V(i+1, j) + pd * V(i+1, j-1)) whatever
\* the family and the is_am flag; the American price equals the European price for the
\* same parameters; the call returns V(0, N).
C26_TrinomialRecurrenceForEveryFamily ==
    Priced("trinomial") =>
        /\ \A i \in 0..(model.N - 1) : \A j \in (model.N - i)..(model.N + i) :
                option_price_tree[i][j] =
                    RMul(model.df,
                         RAdd(RAdd(RMul(model.pu, option_price_tree[i + 1][j + 1]),
                                   RMul(model.pm, option_price_tree[i + 1][j])),
                              RMul(model.pd, option_price_tree[i + 1][j - 1])))
        /\ ret.value = option_price_tree[0][model.N]
        /\ ret.arg = "american" =>
                \A am \in BOOLEAN : ret.value = Tri_EuropeanPrice(am)

\* an American put priced on a trinomial instance with the is_am flag set, over two
\* steps, whose root value is below the value of the centre node one step later
C26_Witness ==
    /\ Priced("trinomial") /\ model.is_am /\ model.is_put /\ ret.arg = "american"
    /\ model.N = 2
    /\ IsFinite(ret.value) /\ ret.value # Zero
    /\ RLt(ret.value, option_price_tree[1][model.N])

\* the families that carry no early-exercise right
NonAmericanFamilies == {"european", "digital", "power", "strangle"}

\* C27: on a binomial instance the price and the option price lattice of a non-American
\* family do not depend on the is_am flag: an instance that differs only in that flag
\* returns the same price and holds the same option price lattice for the same family.
C27_NonAmericanPriceIgnoresIsAm ==
    (Priced("binomial") /\ ret.arg \in NonAmericanFamilies) =>
        LET other == Bin_option_price_tree([model EXCEPT !.is_am = ~model.is_am],
                                           stock_price_tree, ret.arg)
        IN /\ option_price_tree = other
           /\ ret.value = other[0][0]

\* the lattice of the instance a read names
Lattice(tree) == IF tree = "option_price_tree" THEN option_price_tree ELSE stock_price_tree

\* a read lies inside its array
InsideArray(r) ==
    /\ r.row \in DOMAIN Lattice(r.tree)
    /\ r.col \in DOMAIN Lattice(r.tree)[r.row]

\* a read lies inside the populated region of its row
InsidePopulated(r) ==
    IF model.kind = "binomial" THEN 0 <= r.col /\ r.col <= r.row /\ r.row <= model.N
    ELSE model.N - r.row <= r.col /\ r.col <= model.N + r.row /\ r.row <= model.N

\* the reads and the delta write of the backward iteration of the instance
BackwardNodes ==
    IF model.kind = "binomial" THEN Bin_backward_nodes(model) ELSE Tri_backward_nodes(model)
ReadsAt(node) ==
    IF model.kind = "binomial" THEN Bin_reads(node[1], node[2]) ELSE Tri_reads(node[1], node[2])

\* C28: during backward induction and delta computation every lattice read lies inside the
\* array and inside the populated region of step i+1 (binomial columns j, j+1 <= i+1 <= N;
\* trinomial columns j-1, j, j+1 within N-(i+1)..N+(i+1)), no index is negative or beyond
\* the last column, and every delta write lies inside the delta lattice.
C28_BackwardReadsStayInsideLattice ==
    PricedAny =>
        \A node \in BackwardNodes :
            /\ \A r \in ReadsAt(node) :
                    /\ InsideArray(r) /\ InsidePopulated(r)
                    /\ 0 <= r.col /\ r.col <= Columns - 1
            /\ node[1] \in DOMAIN delta_tree
            /\ node[2] \in DOMAIN delta_tree[node[1]]

\* a trinomial instance priced over two steps: the backward iteration reads the first
\* and the last column of the terminal row
C28_Witness ==
    /\ Priced("trinomial") /\ model.N = 2
    /\ \E node \in BackwardNodes : \E r \in ReadsAt(node) : r.col = 0
    /\ \E node \in BackwardNodes : \E r \in ReadsAt(node) : r.col = 2 * model.N

\* C29: at every step i of the price lattice built by a pricing call the node price does
\* not decrease with the number of up-moves: on a binomial instance it is non-increasing
\* in the column j over 0..i, on a trinomial instance non-decreasing in j over N-i..N+i,
\* for every constructed instance of either calibration.
C29_PriceMonotoneInUpMoves ==
    (ret.op = "price_option" /\ stock_price_tree # Unset) =>
        \A i \in 0..model.N :
            IF model.kind = "binomial"
            THEN \A j \in 0..(i - 1) :
                    RLe(stock_price_tree[i][j + 1], stock_price_tree[i][j])
            ELSE \A j \in (model.N - i)..(model.N + i - 1) :
                    RLe(stock_price_tree[i][j], stock_price_tree[i][j + 1])

\* C30: after a pricing call on a binomial instance the price lattice has shape
\* (N+1) x (N+1); entry (i, j), 0 <= j <= i <= N, is S0 * u^(i-j) * d^j, j counting the
\* down-moves, and every entry with j > i is 0.
C30_BinomialPriceLattice ==
    (model.kind = "binomial" /\ ret.op = "price_option") =>
        /\ HasShape(stock_price_tree, model.N + 1, model.N + 1)
        /\ \A i \in 0..model.N : \A j \in 0..model.N :
                stock_price_tree[i][j] =
                    IF j <= i
                    THEN RMul(model.S0, RMul(RPow(model.u, i - j), RPow(model.d, j)))
                    ELSE Zero

\* a binomial price lattice over three steps with distinct up and down factors
C30_Witness ==
    /\ Priced("binomial") /\ model.N = 3 /\ model.u # model.d
    /\ stock_price_tree[3][1] # stock_price_tree[3][2]
    /\ stock_price_tree[1][2] = Zero

====
